---- MODULE Spec2Model ----
(***************************************************************************)
(* A model of aepybamm/params.py: the parameter derivation pipeline        *)
(* get_params and the public transformations it sequences.                 *)
(*                                                                         *)
(* Representation.                                                         *)
(*  - A parameter name (and an event name) is the sequence of its          *)
(*    space-separated words, so "Negative electrode OCP [V]" is            *)
(*    <<"Negative","electrode","OCP","[V]">>.  Python's substring test     *)
(*    `a in b`, str.partition and str.replace are modelled on these word   *)
(*    sequences (a match is a contiguous run of whole words).              *)
(*  - A parameter mapping is a function from names to values.              *)
(*  - A value is a record [tag, src, n, d, coef]: the datum `src` (or the  *)
(*    number n/d when tag = "num") times the rational n/d; a synthesized   *)
(*    function keeps the inputs it was built from in coef.                 *)
(*  - Fractions are integers in percent (SOC_init = 98 is 0.98).           *)
(*  - None is <<>>, and an optional x is <<x>>.                            *)
(***************************************************************************)
EXTENDS Integers, Sequences, FiniteSets, TLC

VARIABLES pc, args, file, fp_bpx, parameter_values, required_model_opts,
          degradation_state, phases_by_electrode, use_hysteresis,
          hysteresis_init_branches, model, error, factory_events

vars == <<pc, args, file, fp_bpx, parameter_values, required_model_opts,
          degradation_state, phases_by_electrode, use_hysteresis,
          hysteresis_init_branches, model, error, factory_events>>

----------------------------------------------------------------------------
(* Python values *)

None == <<>>
Some(x) == <<x>>
The(o) == o[1]

PyNone == [type |-> "NoneType", d |-> <<>>]
PyDict(d) == [type |-> "dict", d |-> d]
PyList == [type |-> "list", d |-> <<>>]

EmptyMap == <<>>

\* dict.update / item assignment: entries of u win over those of m
Update(m, u) ==
    [k \in (DOMAIN m) \cup (DOMAIN u) |-> IF k \in DOMAIN u THEN u[k] ELSE m[k]]

\* del m[k] for every k in ks
Delete(m, ks) == [k \in (DOMAIN m) \ ks |-> m[k]]

One(k, v) == [x \in {k} |-> v]

----------------------------------------------------------------------------
(* Strings as word sequences *)

\* sub in s
Contains(sub, s) ==
    \E i \in 0..(Len(s) - Len(sub)) : SubSeq(s, i + 1, i + Len(sub)) = sub

\* s.replace(old, new), left to right, non-overlapping (old is not empty)
RECURSIVE Replace(_, _, _)
Replace(s, old, new) ==
    IF Len(s) < Len(old) \/ Len(old) = 0 THEN s
    ELSE IF SubSeq(s, 1, Len(old)) = old
         THEN new \o Replace(SubSeq(s, Len(old) + 1, Len(s)), old, new)
         ELSE <<Head(s)>> \o Replace(Tail(s), old, new)

\* s.replace(old + " ", ""): an occurrence of old is removed when a space
\* follows it, that is when it is not the end of s
RECURSIVE RemoveFollowedBySpace(_, _)
RemoveFollowedBySpace(s, old) ==
    IF Len(s) <= Len(old) \/ Len(old) = 0 THEN s
    ELSE IF SubSeq(s, 1, Len(old)) = old
         THEN RemoveFollowedBySpace(SubSeq(s, Len(old) + 1, Len(s)), old)
         ELSE <<Head(s)>> \o RemoveFollowedBySpace(Tail(s), old)

----------------------------------------------------------------------------
(* Module constants *)

VALID_MODEL_TYPES == {"DFN", "SPMe", "SPM"}
VALID_HYSTERESIS_MODELS == {"none", "zero-state", "one-state"}
VALID_HYSTERESIS_BRANCHES == {"average", "charge", "discharge"}
VALID_DEGRADATION_KEYS ==
    {"LAM_NE", "LAM_PE", "LLI", "RI_far_NE", "RI_far_PE", "RI_electrolyte",
     "R0_addn [Ohm]"}

PARAMS_HYSTERESIS_DIFF ==
    << <<"lithiation", "OCP", "[V]">>, <<"delithiation", "OCP", "[V]">>,
       <<"OCP", "[V]">>, <<"OCP", "entropic", "change", "[V.K-1]">> >>

\* imported from sci_tools / pybamm_tools
ELECTRODES == <<"Negative", "Positive">>
Lower(el) == IF el = "Negative" THEN "negative" ELSE "positive"
PYBAMM_MATERIAL_NAMES == <<"Primary", "Secondary">>
HYSTERESIS_BRANCHES_ELECTRODE == <<"lithiation", "delithiation">>
HYSTERESIS_BRANCH_MAP ==
    [b \in {"charge", "discharge"} |->
        [el \in {"Negative", "Positive"} |->
            IF (b = "charge") = (el = "Negative") THEN "lithiation"
            ELSE "delithiation"]]

----------------------------------------------------------------------------
(* Parameter values *)

V(tag, src, n, d, coef) == [tag |-> tag, src |-> src, n |-> n, d |-> d, coef |-> coef]
Data(k) == V("data", k, 1, 1, EmptyMap)
Num(x) == V("num", <<>>, x, 1, EmptyMap)

RECURSIVE Gcd(_, _)
Gcd(a, b) == IF b = 0 THEN a ELSE Gcd(b, a % b)

\* pybamm_tools._scale_param: the value (a scalar, or a function wrapped
\* with a multiplicative factor) times n/d
_scale_param(v, n, d) ==
    LET nn == v.n * n
        dd == v.d * d
        g == Gcd(nn, dd)
    IN IF g = 0 THEN [v EXCEPT !.n = 0, !.d = 1]
       ELSE [v EXCEPT !.n = nn \div g, !.d = dd \div g]

----------------------------------------------------------------------------
(* Model options: a value is a string or a tuple of option values *)

Str(x) == [t |-> "str", s |-> x, items |-> <<>>]
Tup(xs) == [t |-> "tuple", s |-> "", items |-> xs]

----------------------------------------------------------------------------
(* Iteration order of a mapping.  The order in which a parameter file lists *)
(* its entries is not fixed by its content; `rev` selects one of two orders *)
(* of the keys a loop visits.                                               *)

SomeOrder(S) ==
    CHOOSE q \in [1..Cardinality(S) -> S] :
        \A i, j \in 1..Cardinality(S) : i # j => q[i] # q[j]

Reverse(q) == [i \in 1..Len(q) |-> q[Len(q) + 1 - i]]

Iter(S, rev) == IF rev THEN Reverse(SomeOrder(S)) ELSE SomeOrder(S)

----------------------------------------------------------------------------
(* _validate_args_get_params: "" when the arguments pass, else the error *)

AnyBlended(be) == \E i \in 1..Len(be) : be[i]

DegradationCheck(a) ==
    IF a.degradation_state.type = "NoneType" THEN ""
    ELSE IF AnyBlended(a.blended_electrode) \/ a.hysteresis_model # "none"
    THEN "NotImplementedError: degradation_state"
    ELSE IF a.degradation_state.type # "dict"
    THEN "TypeError: degradation_state"
    ELSE IF \E k \in DOMAIN a.degradation_state.d : k \notin VALID_DEGRADATION_KEYS
    THEN "ValueError: degradation_state"
    ELSE ""

\* the validation without its degradation_state checks
ValidateSkipsDegradation(a) ==
    IF a.model_type \notin VALID_MODEL_TYPES THEN "ValueError: model_type"
    ELSE IF a.hysteresis_model \notin VALID_HYSTERESIS_MODELS
    THEN "ValueError: hysteresis_model"
    ELSE IF a.hysteresis_branch \notin VALID_HYSTERESIS_BRANCHES
    THEN "ValueError: hysteresis_branch"
    ELSE IF a.hysteresis_preceding_state \notin VALID_HYSTERESIS_BRANCHES
    THEN "ValueError: hysteresis_preceding_state"
    ELSE IF a.add_hysteresis_heat_source /\ a.hysteresis_model # "one-state"
    THEN "NotImplementedError: add_hysteresis_heat_source"
    ELSE IF /\ "thermal" \in DOMAIN a.extra_model_opts
            /\ a.extra_model_opts["thermal"] # Str("isothermal")
            /\ a.htc_ext = None
    THEN "ValueError: htc_ext"
    ELSE IF /\ a.OCV_init # None
            /\ (AnyBlended(a.blended_electrode) \/ a.hysteresis_model # "none")
    THEN "NotImplementedError: OCV_init"
    ELSE IF a.SOC_definition.type = "NoneType" THEN ""
    ELSE IF a.SOC_definition.type # "dict" \/ "data" \notin DOMAIN a.SOC_definition.d
    THEN "TypeError: SOC_definition"
    ELSE IF AnyBlended(a.blended_electrode) \/ a.hysteresis_model # "none"
    THEN "NotImplementedError: SOC_definition"
    ELSE ""

_validate_args_get_params(a) ==
    IF a.model_type \notin VALID_MODEL_TYPES THEN "ValueError: model_type"
    ELSE IF a.hysteresis_model \notin VALID_HYSTERESIS_MODELS
    THEN "ValueError: hysteresis_model"
    ELSE IF a.hysteresis_branch \notin VALID_HYSTERESIS_BRANCHES
    THEN "ValueError: hysteresis_branch"
    ELSE IF a.hysteresis_preceding_state \notin VALID_HYSTERESIS_BRANCHES
    THEN "ValueError: hysteresis_preceding_state"
    ELSE IF a.add_hysteresis_heat_source /\ a.hysteresis_model # "one-state"
    THEN "NotImplementedError: add_hysteresis_heat_source"
    ELSE IF DegradationCheck(a) # "" THEN DegradationCheck(a)
    ELSE IF /\ "thermal" \in DOMAIN a.extra_model_opts
            /\ a.extra_model_opts["thermal"] # Str("isothermal")
            /\ a.htc_ext = None
    THEN "ValueError: htc_ext"
    ELSE IF /\ a.OCV_init # None
            /\ (AnyBlended(a.blended_electrode) \/ a.hysteresis_model # "none")
    THEN "NotImplementedError: OCV_init"
    ELSE IF a.SOC_definition.type = "NoneType" THEN ""
    ELSE IF a.SOC_definition.type # "dict" \/ "data" \notin DOMAIN a.SOC_definition.d
    THEN "TypeError: SOC_definition"
    ELSE IF AnyBlended(a.blended_electrode) \/ a.hysteresis_model # "none"
    THEN "NotImplementedError: SOC_definition"
    ELSE ""

----------------------------------------------------------------------------
(* _get_bpx_src.  A file is [header, default, sets, direct, rev]: the keys  *)
(* of its "Header" object (<<>> when it has none), the default set name,    *)
(* the sibling files its "Parameter Sets" name (set name -> the parameters  *)
(* that file holds), and the parameters the file itself holds.              *)

_get_bpx_src(f, parameter_set) ==
    IF f.header = None THEN [err |-> "ValueError: header", fp |-> None]
    ELSE IF "BPX" \in The(f.header)
    THEN IF parameter_set # None
         THEN [err |-> "ValueError: parameter_set", fp |-> None]
         ELSE [err |-> "", fp |-> Some("fp")]
    ELSE IF "BPX Parent" \in The(f.header)
    THEN LET ps == IF parameter_set = None THEN f.default ELSE The(parameter_set)
         IN IF parameter_set # None /\ ps \notin DOMAIN f.sets
            THEN [err |-> "ValueError: parameter_set", fp |-> None]
            ELSE IF ps \notin DOMAIN f.sets
            THEN [err |-> "KeyError: Parameter Sets", fp |-> None]
            ELSE [err |-> "", fp |-> Some(ps)]
    ELSE [err |-> "ValueError: header", fp |-> None]

\* pybamm_tools.get_default_parameter_values: the parameters of the file
get_default_parameter_values(f, fp) ==
    IF fp = "fp" THEN f.direct ELSE f.sets[fp]

----------------------------------------------------------------------------
(* build_exchange_current_density *)

tag_j0 == <<"exchange-current", "density", "pre-multiplier">>
RateConstant == <<"reaction", "rate", "constant", "[mol.m-2.s-1]">>
ActivationEnergy ==
    <<"reaction", "rate", "constant", "activation", "energy", "[J.mol-1]">>
ReferenceTemperature == <<"Reference", "temperature", "[K]">>

\* func._make_j0_func: the function built from the constants and the
\* pre-multiplier
_make_j0_func(j0_ref, Ea, Tref, func_premul) ==
    V("j0", <<>>, 1, 1,
      (<<"j0_ref">> :> j0_ref) @@ (<<"Ea">> :> Ea) @@ (<<"Tref">> :> Tref)
        @@ (<<"func_premul">> :> func_premul))

\* the keys one pass of the loop deletes
J0Consumed(param) == {param, Replace(param, tag_j0, RateConstant)}

\* one pass of the loop body, lines 366-378
J0Step(r, param) ==
    LET m == r.pv
        rate == Replace(param, tag_j0, RateConstant)
        ea == Replace(param, tag_j0, ActivationEnergy)
        dst == Replace(param, <<"pre-multiplier">>, <<"[A.m-2]">>)
    IN IF r.err # "" THEN r
       ELSE IF {rate, ea, ReferenceTemperature, param} \subseteq DOMAIN m
       THEN LET f == _make_j0_func(m[rate], m[ea], m[ReferenceTemperature], m[param])
                m1 == Update(m, One(dst, f))
            IN IF J0Consumed(param) \subseteq DOMAIN m1
               THEN [pv |-> Delete(m1, J0Consumed(param)), err |-> ""]
               ELSE [pv |-> m1, err |-> "KeyError"]
       ELSE [pv |-> m, err |-> "KeyError"]

RECURSIVE J0Loop(_, _)
J0Loop(r, todo) ==
    IF todo = <<>> THEN r ELSE J0Loop(J0Step(r, Head(todo)), Tail(todo))

build_exchange_current_density(m, rev) ==
    LET param_subst == Iter({k \in DOMAIN m : Contains(tag_j0, k)}, rev)
    IN J0Loop([pv |-> m, err |-> ""], param_subst)

----------------------------------------------------------------------------
(* build_BPX_incompatible *)

\* " func_type " in s: the word, with a word before it and a word after it
IsFuncHeader(s) == \E i \in 2..(Len(s) - 1) : s[i] = "func_type"

\* s.partition(" func_type "): the split at the first occurrence
FuncTypeAt(s) ==
    CHOOSE i \in 2..(Len(s) - 1) :
        s[i] = "func_type" /\ \A j \in 2..(i - 1) : s[j] # "func_type"
HeaderParam(s) == SubSeq(s, 1, FuncTypeAt(s) - 1)
HeaderType(s) == SubSeq(s, FuncTypeAt(s) + 1, Len(s))

\* `param in k and param != k`, the test of lines 399 and 404
MatchesParam(param, k) == Contains(param, k) /\ param # k

\* func._unflatten and func._make_generic_func_ce_T: the function of the
\* declared type over the coefficients collected
_make_generic_func_ce_T(func_type, coeffs) == V("gen", func_type, 1, 1, coeffs)

\* the dict comprehension of lines 396-400
Coeffs(m, param) ==
    LET srcs == {k \in DOMAIN m :
                    MatchesParam(param, k) /\ ~Contains(<<"func_type">>, k)}
        names == {RemoveFollowedBySpace(k, param) : k \in srcs}
    IN [c \in names |->
          m[CHOOSE k \in srcs : RemoveFollowedBySpace(k, param) = c]]

\* one pass of the loop body, lines 395-405
BPXStep(m, header) ==
    LET param == HeaderParam(header)
        f == _make_generic_func_ce_T(HeaderType(header), Coeffs(m, param))
        m1 == Update(m, One(param, f))
    IN Delete(m1, {k \in DOMAIN m1 : MatchesParam(param, k)})

RECURSIVE BPXLoop(_, _)
BPXLoop(m, todo) ==
    IF todo = <<>> THEN m ELSE BPXLoop(BPXStep(m, Head(todo)), Tail(todo))

build_BPX_incompatible(m, rev) ==
    LET func_headers == Iter({s \in DOMAIN m : IsFuncHeader(s)}, rev)
    IN BPXLoop(m, func_headers)

----------------------------------------------------------------------------
(* apply_htc_ext *)

HeatTransferCoefficient ==
    <<"Total", "heat", "transfer", "coefficient", "[W.m-2.K-1]">>

apply_htc_ext(m, htc_ext) == Update(m, One(HeatTransferCoefficient, Num(htc_ext)))

----------------------------------------------------------------------------
(* apply_degradation_state.  A degradation state maps mode names to        *)
(* percent (and "R0_addn [Ohm]" to a number of ohms).                      *)

CyclableLithium ==
    <<"AE:", "Total", "cyclable", "lithium", "inventory", "[mol.m-2]">>
VolumeFraction(el) ==
    <<el, "electrode", "active", "material", "volume", "fraction">>
ExchangeCurrentDensity(el) ==
    <<el, "electrode", "exchange-current", "density", "[A.m-2]">>
MaximumConcentration(el) ==
    <<"Maximum", "concentration", "in", Lower(el), "electrode", "[mol.m-3]">>
ElectrolyteConductivity == <<"Electrolyte", "conductivity", "[S.m-1]">>
ElectrolyteDiffusivity == <<"Electrolyte", "diffusivity", "[m2.s-1]">>
ContactResistance == <<"Contact", "resistance", "[Ohm]">>

\* sci_tools.calc_lithium_inventory: a quantity of the mapping it is given,
\* here of the electrode capacities (volume fractions and maximum
\* concentrations) it finds there
calc_lithium_inventory(m) ==
    LET reads == {VolumeFraction(ELECTRODES[i]) : i \in 1..2}
                   \cup {MaximumConcentration(ELECTRODES[i]) : i \in 1..2}
    IN V("ncyc", <<>>, 1, 1, [k \in reads \cap DOMAIN m |-> m[k]])

\* lines 264-272
DegLLI(m, ds) ==
    LET ncyc == calc_lithium_inventory(m)
    IN One(CyclableLithium,
           IF "LLI" \in DOMAIN ds THEN _scale_param(ncyc, 100 - ds["LLI"], 100)
           ELSE ncyc)

\* lines 275-284
DegLAM(m, ds) ==
    [k \in {VolumeFraction(ELECTRODES[i]) : i \in 1..2} |->
        LET loss_factor == IF k = VolumeFraction("Negative") THEN "LAM_NE" ELSE "LAM_PE"
        IN IF loss_factor \in DOMAIN ds
           THEN _scale_param(m[k], 100 - ds[loss_factor], 100)
           ELSE m[k]]

\* lines 287-293
DegFarTargets(ds) ==
    {ExchangeCurrentDensity(ELECTRODES[i]) : i \in
        {j \in 1..2 : <<"RI_far_NE", "RI_far_PE">>[j] \in DOMAIN ds}}

DegFar(m, ds) ==
    [k \in DegFarTargets(ds) |->
        LET loss_factor ==
                IF k = ExchangeCurrentDensity("Negative") THEN "RI_far_NE" ELSE "RI_far_PE"
        IN _scale_param(m[k], 100, 100 + ds[loss_factor])]

\* lines 295-298
DegElectrolyteTargets(ds) ==
    IF "RI_electrolyte" \in DOMAIN ds
    THEN {ElectrolyteConductivity, ElectrolyteDiffusivity} ELSE {}

DegElectrolyte(m, ds) ==
    [k \in DegElectrolyteTargets(ds) |->
        _scale_param(m[k], 100, 100 + ds["RI_electrolyte"])]

\* lines 301-308
DegR0(m, ds) ==
    IF "R0_addn [Ohm]" \in DOMAIN ds
    THEN LET R0_existing ==
                 IF ContactResistance \in DOMAIN m THEN m[ContactResistance] ELSE Num(0)
         IN One(ContactResistance,
                [R0_existing EXCEPT !.n = @ + ds["R0_addn [Ohm]"] * R0_existing.d])
    ELSE EmptyMap

\* the entries the function reads with parameter_values[...]
DegReads(ds) ==
    {VolumeFraction(ELECTRODES[i]) : i \in 1..2}
        \cup DegFarTargets(ds) \cup DegElectrolyteTargets(ds)

\* the batch with the lithium inventory computed after the loss of active
\* material has been applied
CascadingScaledVals(m, ds) ==
    Update(Update(Update(Update(DegLLI(Update(m, DegLAM(m, ds)), ds), DegLAM(m, ds)),
                         DegFar(m, ds)),
                  DegElectrolyte(m, ds)), DegR0(m, ds))

\* the batch written at the end, lines 310-313
degradation_scaled_vals(m, ds) ==
    Update(Update(Update(Update(DegLLI(m, ds), DegLAM(m, ds)), DegFar(m, ds)),
                  DegElectrolyte(m, ds)), DegR0(m, ds))

apply_degradation_state(m, ds) ==
    IF DegReads(ds) \subseteq DOMAIN m
    THEN [pv |-> Update(m, degradation_scaled_vals(m, ds)), err |-> ""]
    ELSE [pv |-> m, err |-> "KeyError"]

\* a degradation state passed on as given, zero entries included
KeepZeroDegradation(ds) ==
    IF ds.type = "NoneType" THEN None ELSE Some(ds.d)

\* lines 147-154 of get_params: zero entries dropped, an empty state is None
FilterDegradationState(ds) ==
    IF ds.type = "NoneType" THEN None
    ELSE LET nz == {k \in DOMAIN ds.d : ds.d[k] # 0}
         IN IF nz = {} THEN None ELSE Some([k \in nz |-> ds.d[k]])

----------------------------------------------------------------------------
(* Phases *)

_get_phases_by_electrode(be) ==
    [i \in 1..Len(be) |->
        IF be[i]
        THEN [j \in 1..Len(PYBAMM_MATERIAL_NAMES) |->
                 IF j = 1 THEN <<"Primary:">> ELSE <<"Secondary:">>]
        ELSE << <<>> >>]

\* any(phases): some phase prefix is not the empty string
AnyPhase(phases) == \E j \in 1..Len(phases) : phases[j] # <<>>

PhaseCheck(m, el, phases) ==
    IF AnyPhase(phases)
    THEN IF /\ \E k \in DOMAIN m : Contains(<<"Primary:">>, k)
            /\ \E k \in DOMAIN m : Contains(<<"Secondary:">>, k)
         THEN "" ELSE "ValueError: no blended data"
    ELSE IF MaximumConcentration(el) \in DOMAIN m
         THEN "" ELSE "ValueError: no single-material data"

\* the phase checks without the rejection of a positive electrode blend
ValidatePhasesAllowsPositiveBlend(m, pbe) ==
    IF PhaseCheck(m, ELECTRODES[1], pbe[1]) # ""
    THEN PhaseCheck(m, ELECTRODES[1], pbe[1])
    ELSE PhaseCheck(m, ELECTRODES[2], pbe[2])

_validate_phases_by_electrode(m, pbe) ==
    IF Len(pbe[2]) > 1 THEN "ValueError: positive electrode blend"
    ELSE IF PhaseCheck(m, ELECTRODES[1], pbe[1]) # ""
    THEN PhaseCheck(m, ELECTRODES[1], pbe[1])
    ELSE PhaseCheck(m, ELECTRODES[2], pbe[2])

----------------------------------------------------------------------------
(* Hysteresis *)

BranchOCP(phase, el, branch) == phase \o <<el, "electrode", branch, "OCP", "[V]">>
CanonicalOCP(phase, el) == phase \o <<el, "electrode", "OCP", "[V]">>

_has_hysteresis_data(m, el, phase) ==
    \A i \in 1..Len(HYSTERESIS_BRANCHES_ELECTRODE) :
        BranchOCP(phase, el, HYSTERESIS_BRANCHES_ELECTRODE[i]) \in DOMAIN m

\* The loop variable of the inner `for branch in HYSTERESIS_BRANCHES_ELECTRODE`
\* (line 429) is the variable `branch` that line 419 sets for the electrode:
\* after a phase is rewritten it holds the last of HYSTERESIS_BRANCHES_ELECTRODE.
BranchAfterDelete(branch) ==
    HYSTERESIS_BRANCHES_ELECTRODE[Len(HYSTERESIS_BRANCHES_ELECTRODE)]

\* one pass of the loop over phases, lines 422-430; r is [pv, branch]
BranchStep(r, el, phase) ==
    IF _has_hysteresis_data(r.pv, el, phase)
    THEN LET m1 == Update(r.pv, One(CanonicalOCP(phase, el),
                                    r.pv[BranchOCP(phase, el, r.branch)]))
         IN [pv |-> Delete(m1, {BranchOCP(phase, el, HYSTERESIS_BRANCHES_ELECTRODE[i]) :
                                  i \in 1..Len(HYSTERESIS_BRANCHES_ELECTRODE)}),
             branch |-> BranchAfterDelete(r.branch)]
    ELSE r

RECURSIVE BranchPhases(_, _, _)
BranchPhases(r, el, phases) ==
    IF phases = <<>> THEN r
    ELSE BranchPhases(BranchStep(r, el, Head(phases)), el, Tail(phases))

RECURSIVE BranchElectrodes(_, _, _, _)
BranchElectrodes(m, hysteresis_branch, pbe, i) ==
    IF i > Len(ELECTRODES) \/ i > Len(pbe) THEN m
    ELSE LET el == ELECTRODES[i]
             r == BranchPhases([pv |-> m, branch |-> HYSTERESIS_BRANCH_MAP[hysteresis_branch][el]],
                               el, pbe[i])
         IN BranchElectrodes(r.pv, hysteresis_branch, pbe, i + 1)

apply_hysteresis_branch(m, hysteresis_branch, pbe) ==
    BranchElectrodes(m, hysteresis_branch, pbe, 1)

\* lines 434-439
hysteresis_model_PyBaMM(hysteresis_model) ==
    IF hysteresis_model = "zero-state" THEN "current sigmoid"
    ELSE IF hysteresis_model = "one-state" THEN "Wycisk"
    ELSE "ValueError"

\* the resolution that takes one branch entry for hysteresis data
ResolveOnAnyBranch(hysteresis_model, m, el, phases) ==
    LET by_phase ==
            [j \in 1..Len(phases) |->
                IF \E i \in 1..Len(HYSTERESIS_BRANCHES_ELECTRODE) :
                       BranchOCP(phases[j], el, HYSTERESIS_BRANCHES_ELECTRODE[i]) \in DOMAIN m
                THEN Str(hysteresis_model_PyBaMM(hysteresis_model))
                ELSE Str("single")]
    IN IF Len(phases) = 1 THEN by_phase[1] ELSE Tup(by_phase)

\* lines 441-454: a string for one phase, a tuple for several
get_hysteresis_model_by_electrode(hysteresis_model, m, el, phases) ==
    LET by_phase ==
            [j \in 1..Len(phases) |->
                IF _has_hysteresis_data(m, el, phases[j])
                THEN Str(hysteresis_model_PyBaMM(hysteresis_model))
                ELSE Str("single")]
    IN IF Len(phases) = 1 THEN by_phase[1] ELSE Tup(by_phase)

SwitchingFactor(phase, el) ==
    phase \o <<el, "particle", "hysteresis", "switching", "factor">>
InitialHysteresisState(phase, el) ==
    phase \o <<"Initial", "hysteresis", "state", "in", Lower(el), "electrode">>
HysteresisDiff(phase, el, i) == phase \o <<el, "electrode">> \o PARAMS_HYSTERESIS_DIFF[i]

\* pybamm_tools._make_hysteresis_compatible: the value in the representation
\* the one-state model reads
_make_hysteresis_compatible(v) == V("hysteresis_compatible", <<>>, 1, 1, One(<<"of">>, v))

\* lines 482-484
RECURSIVE OneStateRebuild(_, _, _, _)
OneStateRebuild(r, phase, el, i) ==
    IF i > Len(PARAMS_HYSTERESIS_DIFF) \/ r.err # "" THEN r
    ELSE LET key == HysteresisDiff(phase, el, i)
         IN IF key \in DOMAIN r.pv
            THEN OneStateRebuild(
                     [r EXCEPT !.pv = Update(@, One(key, _make_hysteresis_compatible(@[key])))],
                     phase, el, i + 1)
            ELSE [r EXCEPT !.err = "KeyError"]

\* the pass that overwrites a switching factor without testing it
OneStateStepUnchecked(r, el, phase, use_hysteresis_phase) ==
    IF r.err # "" \/ use_hysteresis_phase # Str("Wycisk") THEN r
    ELSE OneStateRebuild(
             [r EXCEPT !.pv = Update(@, One(SwitchingFactor(phase, el), Num(0))
                                          @@ One(InitialHysteresisState(phase, el), Num(0)))],
             phase, el, 1)

\* one pass of the loop over phases, lines 464-484
OneStateStep(r, el, phase, use_hysteresis_phase) ==
    IF r.err # "" \/ use_hysteresis_phase # Str("Wycisk") THEN r
    ELSE LET key_switch == SwitchingFactor(phase, el)
             key_init == InitialHysteresisState(phase, el)
         IN IF key_switch \in DOMAIN r.pv /\ r.pv[key_switch].n # 0
            THEN [r EXCEPT !.err = "ValueError: switching factor"]
            ELSE OneStateRebuild(
                     [r EXCEPT !.pv = Update(@, One(key_switch, Num(0)) @@ One(key_init, Num(0)))],
                     phase, el, 1)

\* a scalar str is placed in a 1-tuple, lines 459-461
AsTuple(use_hysteresis_electrode) ==
    IF use_hysteresis_electrode.t = "str" THEN <<use_hysteresis_electrode>>
    ELSE use_hysteresis_electrode.items

RECURSIVE OneStatePhases(_, _, _, _, _)
OneStatePhases(r, el, phases, use, j) ==
    IF j > Len(phases) \/ j > Len(use) THEN r
    ELSE OneStatePhases(OneStateStep(r, el, phases[j], use[j]), el, phases, use, j + 1)

RECURSIVE OneStateElectrodes(_, _, _, _)
OneStateElectrodes(r, use_hyst, pbe, i) ==
    IF i > Len(ELECTRODES) \/ i > Len(pbe) \/ i > Len(use_hyst) THEN r
    ELSE OneStateElectrodes(
             OneStatePhases(r, ELECTRODES[i], pbe[i], AsTuple(use_hyst[i]), 1),
             use_hyst, pbe, i + 1)

apply_one_state_hysteresis(m, use_hyst, pbe) ==
    OneStateElectrodes([pv |-> m, err |-> ""], use_hyst, pbe, 1)

\* the words of an option value, for the symbolic results below
RECURSIVE Words(_)
Words(o) ==
    IF o.t = "str" THEN <<o.s>>
    ELSE IF o.items = <<>> THEN <<"(", ")">>
    ELSE <<"(">> \o Words(o.items[1])
           \o (IF Len(o.items) > 1 THEN Words(o.items[2]) ELSE <<>>) \o <<")">>

\* sci_tools._get_hysteresis_init_branch_electrode: a result of the resolved
\* models and the preceding state
_get_hysteresis_init_branch_electrode(use_hyst, hysteresis_preceding_state) ==
    Some(<<hysteresis_preceding_state>> \o Words(Tup(use_hyst)))

----------------------------------------------------------------------------
(* convert_soc_init: [soc, SOC_definition], the thermodynamic SOC and the  *)
(* SOC_definition dict as the call leaves it                               *)

convert_soc_init(SOC_init, OCV_init, SOC_definition) ==
    IF OCV_init # None
    THEN [soc |-> V("np.interp", <<>>, 1, 1, One(<<"OCV_init">>, Num(The(OCV_init)))),
          SOC_definition |-> SOC_definition]
    ELSE IF SOC_definition.type # "NoneType"
    THEN LET sd == IF "method" \in DOMAIN SOC_definition.d THEN SOC_definition.d
                   ELSE Update(SOC_definition.d, One("method", "voltage"))
         IN [soc |-> V("convert_soc", <<sd["data"], sd["method"]>>, 1, 1,
                       One(<<"SOC_init">>, Num(SOC_init))),
             SOC_definition |-> [SOC_definition EXCEPT !.d = sd]]
    ELSE [soc |-> Num(SOC_init), SOC_definition |-> SOC_definition]

InitialConcentration(phase, el) ==
    phase \o <<"Initial", "concentration", "in", Lower(el), "electrode", "[mol.m-3]">>

\* sci_tools.add_initial_concentrations: writes, for every electrode and
\* phase, the initial concentration that the SOC, the initial hysteresis
\* branches and the bounds setting give
add_initial_concentrations(m, pbe, hyst_init_branches, SOC, update_bounds) ==
    LET keys == UNION {{InitialConcentration(pbe[i][j], ELECTRODES[i]) :
                          j \in 1..Len(pbe[i])} : i \in 1..Len(pbe)}
        val == V("initial concentration",
                 (IF update_bounds THEN <<"update_bounds">> ELSE <<>>)
                    \o (IF hyst_init_branches = None THEN <<>> ELSE The(hyst_init_branches)),
                 1, 1, One(<<"SOC_init">>, SOC))
    IN Update(m, [k \in keys |-> val])

----------------------------------------------------------------------------
(* Model options, the model and its events *)

\* the merge that lets an extra option replace a required one
CombineOverrides(required, extra) == [err |-> "", opts |-> Update(required, extra)]

\* [err, opts]
_combine_model_opts(required, extra) ==
    IF \E k \in DOMAIN extra : k \in DOMAIN required
    THEN [err |-> "ValueError: required setting", opts |-> EmptyMap]
    ELSE [err |-> "", opts |-> Update(required, extra)]

\* pybamm_tools.get_model_class(model_type)(options=model_opts): a model
\* holding its options and the events the factory gives it
NewModel(model_type, model_opts, events) ==
    [class |-> model_type, options |-> model_opts, events |-> events,
     hysteresis_heat_source |-> FALSE]

\* pybamm_tools._add_hysteresis_heat_source
_add_hysteresis_heat_source(mdl) == [mdl EXCEPT !.hysteresis_heat_source = TRUE]

SOC_tol == 5

NotMaximumVoltage(name) == ~Contains(<<"Maximum", "voltage">>, name)
NotMinimumVoltage(name) == ~Contains(<<"Minimum", "voltage">>, name)

\* the trim with its bands closed at the tolerance
TrimInclusive(events, SOC_init) ==
    IF SOC_init >= 100 - SOC_tol THEN SelectSeq(events, NotMaximumVoltage)
    ELSE IF SOC_init <= SOC_tol THEN SelectSeq(events, NotMinimumVoltage)
    ELSE events

\* the events apply_trim_model_events leaves in the model
apply_trim_model_events(events, SOC_init) ==
    IF SOC_init > 100 - SOC_tol THEN SelectSeq(events, NotMaximumVoltage)
    ELSE IF SOC_init < SOC_tol THEN SelectSeq(events, NotMinimumVoltage)
    ELSE events

----------------------------------------------------------------------------
(* get_params, stage by stage.  A stage takes the state of the call (a      *)
(* record of the variables) to the state after it.                          *)

Cur ==
    [pc |-> pc, args |-> args, file |-> file, fp_bpx |-> fp_bpx,
     parameter_values |-> parameter_values,
     required_model_opts |-> required_model_opts,
     degradation_state |-> degradation_state,
     phases_by_electrode |-> phases_by_electrode,
     use_hysteresis |-> use_hysteresis,
     hysteresis_init_branches |-> hysteresis_init_branches,
     model |-> model, error |-> error, factory_events |-> factory_events]

Set(s) ==
    /\ pc' = s.pc
    /\ args' = s.args
    /\ file' = s.file
    /\ fp_bpx' = s.fp_bpx
    /\ parameter_values' = s.parameter_values
    /\ required_model_opts' = s.required_model_opts
    /\ degradation_state' = s.degradation_state
    /\ phases_by_electrode' = s.phases_by_electrode
    /\ use_hysteresis' = s.use_hysteresis
    /\ hysteresis_init_branches' = s.hysteresis_init_branches
    /\ model' = s.model
    /\ error' = s.error
    /\ factory_events' = s.factory_events

Raise(s, e) == [s EXCEPT !.pc = "raised", !.error = e]

\* lines 129-130: the arguments with their defaults filled in
extra_model_opts(a) ==
    IF a.extra_model_opts = None THEN EmptyMap ELSE The(a.extra_model_opts)
blended_electrode(a) ==
    IF a.blended_electrode = None THEN <<FALSE, FALSE>> ELSE a.blended_electrode
Defaults(a) ==
    [a EXCEPT !.extra_model_opts = extra_model_opts(a),
              !.blended_electrode = blended_electrode(a)]

\* lines 125-131
StageValidate(s) ==
    LET e == _validate_args_get_params(Defaults(s.args))
    IN IF e # "" THEN Raise(s, e) ELSE [s EXCEPT !.pc = "resolve"]

\* line 132
StageResolve(s) ==
    LET r == _get_bpx_src(s.file, s.args.parameter_set)
    IN IF r.err # "" THEN Raise(s, r.err)
       ELSE [s EXCEPT !.pc = "load", !.fp_bpx = r.fp]

\* line 136
StageLoad(s) ==
    [s EXCEPT !.pc = "build_j0",
              !.parameter_values =
                  Some(get_default_parameter_values(s.file, The(s.fp_bpx)))]

\* line 139
StageBuildJ0(s) ==
    LET r == build_exchange_current_density(The(s.parameter_values), s.file.rev)
    IN IF r.err # "" THEN Raise([s EXCEPT !.parameter_values = Some(r.pv)], r.err)
       ELSE [s EXCEPT !.pc = "build_bpx", !.parameter_values = Some(r.pv)]

\* line 140
StageBuildBPX(s) ==
    [s EXCEPT !.pc = "htc",
              !.parameter_values =
                  Some(build_BPX_incompatible(The(s.parameter_values), s.file.rev))]

\* lines 143-144
StageHtc(s) ==
    [s EXCEPT !.pc = "degradation",
              !.parameter_values =
                  IF s.args.htc_ext # None
                  THEN Some(apply_htc_ext(The(@), The(s.args.htc_ext))) ELSE @]

\* lines 147-157
StageDegradation(s) ==
    LET ds == FilterDegradationState(s.args.degradation_state)
        r == apply_degradation_state(The(s.parameter_values), The(ds))
    IN IF ds = None THEN [s EXCEPT !.pc = "contact", !.degradation_state = ds]
       ELSE IF r.err # "" THEN Raise([s EXCEPT !.degradation_state = ds], r.err)
       ELSE [s EXCEPT !.pc = "contact", !.degradation_state = ds,
                      !.parameter_values = Some(r.pv)]

\* lines 160-168
StageContact(s) ==
    LET m == The(s.parameter_values)
    IN [s EXCEPT !.pc = "phases",
                 !.required_model_opts =
                     IF ContactResistance \in DOMAIN m /\ m[ContactResistance].n > 0
                     THEN Update(@, One("contact resistance", Str("true"))) ELSE @]

\* the number of phases as a string, line 176
Count(phases) == IF Len(phases) = 1 THEN Str("1") ELSE Str("2")

\* lines 171-179
StagePhases(s) ==
    LET pbe == _get_phases_by_electrode(blended_electrode(s.args))
        e == _validate_phases_by_electrode(The(s.parameter_values), pbe)
    IN IF e # "" THEN Raise([s EXCEPT !.phases_by_electrode = pbe], e)
       ELSE [s EXCEPT !.pc = "hysteresis", !.phases_by_electrode = pbe,
                      !.required_model_opts =
                          Update(@, One("particle phases",
                                        Tup([i \in 1..Len(pbe) |-> Count(pbe[i])])))]

\* lines 182-216
StageHysteresis(s) ==
    LET a == s.args
        m == The(s.parameter_values)
        pbe == s.phases_by_electrode
        use == [i \in 1..Len(ELECTRODES) |->
                   get_hysteresis_model_by_electrode(a.hysteresis_model, m,
                                                     ELECTRODES[i], pbe[i])]
        r == IF a.hysteresis_model = "one-state"
             THEN apply_one_state_hysteresis(m, use, pbe)
             ELSE [pv |-> m, err |-> ""]
        hysteresis_model_opts ==
            One("open-circuit potential", Tup(use))
              @@ (IF a.add_hysteresis_heat_source
                  THEN One("calculate heat source for isothermal models", Str("true"))
                  ELSE EmptyMap)
    IN IF a.hysteresis_model = "none"
       THEN [s EXCEPT !.pc = "initial",
                      !.hysteresis_init_branches = None,
                      !.parameter_values =
                          IF a.hysteresis_branch # "average"
                          THEN Some(apply_hysteresis_branch(m, a.hysteresis_branch, pbe))
                          ELSE @]
       ELSE IF r.err # ""
       THEN Raise([s EXCEPT !.use_hysteresis = use, !.parameter_values = Some(r.pv)],
                  r.err)
       ELSE [s EXCEPT !.pc = "initial",
                      !.use_hysteresis = use,
                      !.parameter_values = Some(r.pv),
                      !.hysteresis_init_branches =
                          _get_hysteresis_init_branch_electrode(
                              use, a.hysteresis_preceding_state),
                      !.required_model_opts = Update(@, hysteresis_model_opts)]

\* lines 219-225
StageInitial(s) ==
    LET c == convert_soc_init(s.args.SOC_init, s.args.OCV_init, s.args.SOC_definition)
    IN [s EXCEPT !.pc = "create_model",
                 !.args.SOC_definition = c.SOC_definition,
                 !.parameter_values =
                     Some(add_initial_concentrations(
                              The(@), s.phases_by_electrode,
                              s.hysteresis_init_branches, c.soc,
                              s.degradation_state # None))]

\* lines 228-233
StageCreateModel(s) ==
    LET r == _combine_model_opts(s.required_model_opts, extra_model_opts(s.args))
        mdl == NewModel(s.args.model_type, r.opts, s.factory_events)
    IN IF r.err # "" THEN Raise(s, r.err)
       ELSE [s EXCEPT !.pc = "trim",
                      !.model = Some(IF s.args.add_hysteresis_heat_source
                                     THEN _add_hysteresis_heat_source(mdl) ELSE mdl)]

\* lines 235-238
StageTrim(s) ==
    [s EXCEPT !.pc = "returned",
              !.model =
                  IF s.args.trim_model_events
                  THEN Some([The(@) EXCEPT !.events =
                                 apply_trim_model_events(@, s.args.SOC_init)])
                  ELSE @]

Stage(s) ==
    CASE s.pc = "validate" -> StageValidate(s)
      [] s.pc = "resolve" -> StageResolve(s)
      [] s.pc = "load" -> StageLoad(s)
      [] s.pc = "build_j0" -> StageBuildJ0(s)
      [] s.pc = "build_bpx" -> StageBuildBPX(s)
      [] s.pc = "htc" -> StageHtc(s)
      [] s.pc = "degradation" -> StageDegradation(s)
      [] s.pc = "contact" -> StageContact(s)
      [] s.pc = "phases" -> StagePhases(s)
      [] s.pc = "hysteresis" -> StageHysteresis(s)
      [] s.pc = "initial" -> StageInitial(s)
      [] s.pc = "create_model" -> StageCreateModel(s)
      [] s.pc = "trim" -> StageTrim(s)
      [] OTHER -> s

Ended(s) == s.pc \in {"returned", "raised"}

\* the state in which the call that is in state s ends
RECURSIVE Run(_)
Run(s) == IF Ended(s) \/ Stage(s) = s THEN s ELSE Run(Stage(s))

\* the state at the entry of get_params(fp, ...)
Entry(a, f, ev) ==
    [pc |-> "validate", args |-> a, file |-> f, fp_bpx |-> None,
     parameter_values |-> None, required_model_opts |-> EmptyMap,
     degradation_state |-> None, phases_by_electrode |-> <<>>,
     use_hysteresis |-> <<>>, hysteresis_init_branches |-> None,
     model |-> None, error |-> "", factory_events |-> ev]

\* what the caller of get_params observes: the error, or the returned pair
Outcome(s) ==
    [pc |-> s.pc, error |-> s.error,
     parameter_values |-> IF s.pc = "returned" THEN s.parameter_values ELSE None,
     model |-> IF s.pc = "returned" THEN s.model ELSE None]

Validate == pc = "validate" /\ Set(StageValidate(Cur))
Resolve == pc = "resolve" /\ Set(StageResolve(Cur))
Load == pc = "load" /\ Set(StageLoad(Cur))
BuildJ0 == pc = "build_j0" /\ Set(StageBuildJ0(Cur))
BuildBPX == pc = "build_bpx" /\ Set(StageBuildBPX(Cur))
Htc == pc = "htc" /\ Set(StageHtc(Cur))
Degradation == pc = "degradation" /\ Set(StageDegradation(Cur))
Contact == pc = "contact" /\ Set(StageContact(Cur))
Phases == pc = "phases" /\ Set(StagePhases(Cur))
Hysteresis == pc = "hysteresis" /\ Set(StageHysteresis(Cur))
Initial == pc = "initial" /\ Set(StageInitial(Cur))
CreateModel == pc = "create_model" /\ Set(StageCreateModel(Cur))
Trim == pc = "trim" /\ Set(StageTrim(Cur))

----------------------------------------------------------------------------
(* The calls checked: arguments, parameter files and factory events *)

\* the defaults of the signature, lines 53-69
DefaultArgs ==
    [parameter_set |-> None, SOC_init |-> 100, SOC_definition |-> PyNone,
     OCV_init |-> None, degradation_state |-> PyNone, htc_ext |-> None,
     model_type |-> "DFN", hysteresis_model |-> "none",
     hysteresis_branch |-> "average", hysteresis_preceding_state |-> "average",
     blended_electrode |-> None, add_hysteresis_heat_source |-> FALSE,
     extra_model_opts |-> None, trim_model_events |-> TRUE]

\* at most this many arguments of a call differ from their defaults
MaxVaried == 2

ModelTypes == {"DFN", "SPM", "P2D"}
HysteresisModels == {"none", "zero-state", "one-state", "two-state"}
HysteresisBranches == {"average", "charge", "discharge", "rest"}
PrecedingStates == {"average", "discharge", "rest"}
DegradationStates ==
    {PyNone, PyList, PyDict(EmptyMap), PyDict(One("LLI", 0)),
     PyDict(One("LLI", 10)), PyDict(One("LAM_NE", 0) @@ One("RI_far_PE", 0)),
     PyDict(One("LAM_NE", 20) @@ One("R0_addn [Ohm]", 3)),
     PyDict(One("SEI", 0))}
ExtraModelOpts ==
    {None, Some(EmptyMap), Some(One("thermal", Str("lumped"))),
     Some(One("thermal", Str("isothermal"))),
     Some(One("contact resistance", Str("false"))),
     Some(One("particle phases", Tup(<<Str("1"), Str("1")>>)))}
SOCDefinitions ==
    {PyNone, PyList, PyDict(One("method", "voltage")), PyDict(One("data", "curve")),
     PyDict(One("data", "curve") @@ One("method", "linear_endpoints"))}
SOCInits == {0, 50, 100}
BlendedElectrodes ==
    {None, <<FALSE, FALSE>>, <<TRUE, FALSE>>, <<FALSE, TRUE>>, <<TRUE, TRUE>>}

\* the calls that change one more argument of a call in S
Vary(S) ==
    S \cup {[a EXCEPT !.model_type = v] : a \in S, v \in ModelTypes}
      \cup {[a EXCEPT !.hysteresis_model = v] : a \in S, v \in HysteresisModels}
      \cup {[a EXCEPT !.hysteresis_branch = v] : a \in S, v \in HysteresisBranches}
      \cup {[a EXCEPT !.hysteresis_preceding_state = v] : a \in S, v \in PrecedingStates}
      \cup {[a EXCEPT !.add_hysteresis_heat_source = v] : a \in S, v \in BOOLEAN}
      \cup {[a EXCEPT !.degradation_state = v] : a \in S, v \in DegradationStates}
      \cup {[a EXCEPT !.extra_model_opts = v] : a \in S, v \in ExtraModelOpts}
      \cup {[a EXCEPT !.htc_ext = v] : a \in S, v \in {None, Some(5)}}
      \cup {[a EXCEPT !.OCV_init = v] : a \in S, v \in {None, Some(37)}}
      \cup {[a EXCEPT !.SOC_definition = v] : a \in S, v \in SOCDefinitions}
      \cup {[a EXCEPT !.SOC_init = v] : a \in S, v \in SOCInits}
      \cup {[a EXCEPT !.blended_electrode = v] : a \in S, v \in BlendedElectrodes}
      \cup {[a EXCEPT !.trim_model_events = v] : a \in S, v \in BOOLEAN}
      \cup {[a EXCEPT !.parameter_set = v] : a \in S, v \in {None, Some("A"), Some("Z")}}

RECURSIVE VaryN(_, _)
VaryN(S, n) == IF n = 0 THEN S ELSE VaryN(Vary(S), n - 1)

Calls == VaryN({DefaultArgs}, MaxVaried)

MapOf(keys) == [k \in keys |-> Data(k)]

\* a single-material cell: what the stages of the default call read
SingleKeys ==
    UNION {{MaximumConcentration(ELECTRODES[i]), VolumeFraction(ELECTRODES[i]),
            ExchangeCurrentDensity(ELECTRODES[i])} : i \in 1..2}
      \cup {ElectrolyteConductivity, ElectrolyteDiffusivity, ReferenceTemperature}

\* branch data of one electrode phase, as the one-state model reads it
HysteresisKeys(phase, el) ==
    {HysteresisDiff(phase, el, i) : i \in 1..Len(PARAMS_HYSTERESIS_DIFF)}

\* a negative electrode given by its pre-multiplier and a function-typed
\* electrolyte conductivity
SynthesisKeys ==
    {<<"Negative", "electrode">> \o tag_j0, <<"Negative", "electrode">> \o RateConstant,
     <<"Negative", "electrode">> \o ActivationEnergy,
     ElectrolyteConductivity \o <<"func_type", "Arrhenius">>,
     ElectrolyteConductivity \o <<"c0">>}

BlendedKeys ==
    {MaximumConcentration("Positive"), VolumeFraction("Positive"),
     ExchangeCurrentDensity("Positive"), ElectrolyteConductivity,
     ElectrolyteDiffusivity, ReferenceTemperature,
     <<"Primary:">> \o MaximumConcentration("Negative"),
     <<"Secondary:">> \o MaximumConcentration("Negative")}
      \cup HysteresisKeys(<<"Primary:">>, "Negative")
      \cup HysteresisKeys(<<"Secondary:">>, "Negative")

DirectFile(m) ==
    [header |-> Some({"BPX"}), default |-> "", sets |-> EmptyMap, direct |-> m,
     rev |-> FALSE]

ParentFile(m) ==
    [header |-> Some({"BPX Parent"}), default |-> "A", sets |-> One("A", m),
     direct |-> EmptyMap, rev |-> FALSE]

Files ==
    {DirectFile(MapOf(SingleKeys)),
     DirectFile(MapOf(SingleKeys \cup HysteresisKeys(<<>>, "Negative"))
                  @@ One(ContactResistance, Num(2))
                  @@ One(SwitchingFactor(<<>>, "Negative"), Num(0))),
     DirectFile(MapOf((SingleKeys \ {ExchangeCurrentDensity("Negative")})
                        \cup SynthesisKeys)
                  @@ One(ContactResistance, Num(0))),
     DirectFile(MapOf(BlendedKeys)),
     ParentFile(MapOf(SingleKeys)),
     [DirectFile(MapOf(SingleKeys \ {MaximumConcentration("Negative")}))
        EXCEPT !.header = Some({"Other"})],
     [DirectFile(EmptyMap) EXCEPT !.header = None]}

MinimumVoltage == <<"Minimum", "voltage", "[V]">>
MaximumVoltage == <<"Maximum", "voltage", "[V]">>
OtherEvent == <<"Zero", "negative", "electrode", "porosity", "cut-off">>

FactoryEvents == {<<MinimumVoltage, MaximumVoltage, OtherEvent>>}

\* the variables are those of state s
At(s) ==
    /\ pc = s.pc
    /\ args = s.args
    /\ file = s.file
    /\ fp_bpx = s.fp_bpx
    /\ parameter_values = s.parameter_values
    /\ required_model_opts = s.required_model_opts
    /\ degradation_state = s.degradation_state
    /\ phases_by_electrode = s.phases_by_electrode
    /\ use_hysteresis = s.use_hysteresis
    /\ hysteresis_init_branches = s.hysteresis_init_branches
    /\ model = s.model
    /\ error = s.error
    /\ factory_events = s.factory_events

Init == \E a \in Calls, f \in Files, ev \in FactoryEvents : At(Entry(a, f, ev))

Next ==
    \/ Validate
    \/ Resolve
    \/ Load
    \/ BuildJ0
    \/ BuildBPX
    \/ Htc
    \/ Degradation
    \/ Contact
    \/ Phases
    \/ Hysteresis
    \/ Initial
    \/ CreateModel
    \/ Trim

Spec == Init /\ [][Next]_vars

----------------------------------------------------------------------------
(* The state of the call on reaching a stage *)

RECURSIVE RunTo(_, _)
RunTo(s, p) == IF s.pc = p \/ Ended(s) THEN s ELSE RunTo(Stage(s), p)

\* the state in which the current call reached stage p
Before(p) == RunTo(Entry(args, file, factory_events), p)

\* the stages that follow phase resolution
AfterPhases == {"hysteresis", "initial", "create_model", "trim", "returned"}

----------------------------------------------------------------------------
(* C1 *)

ValidationErrors ==
    {"ValueError: model_type", "ValueError: hysteresis_model",
     "ValueError: hysteresis_branch", "ValueError: hysteresis_preceding_state",
     "NotImplementedError: add_hysteresis_heat_source",
     "NotImplementedError: degradation_state", "TypeError: degradation_state",
     "ValueError: degradation_state", "ValueError: htc_ext",
     "NotImplementedError: OCV_init", "TypeError: SOC_definition",
     "NotImplementedError: SOC_definition"}

BlendedOrHysteresis(a) ==
    \/ a.blended_electrode # None /\ (a.blended_electrode[1] \/ a.blended_electrode[2])
    \/ a.hysteresis_model # "none"

\* the configuration errors the claim lists
ConfigurationError(a) ==
    \/ a.model_type \notin {"DFN", "SPMe", "SPM"}
    \/ a.hysteresis_model \notin {"none", "zero-state", "one-state"}
    \/ a.hysteresis_branch \notin {"average", "charge", "discharge"}
    \/ a.hysteresis_preceding_state \notin {"average", "charge", "discharge"}
    \/ a.add_hysteresis_heat_source /\ a.hysteresis_model # "one-state"
    \/ a.degradation_state.type # "NoneType" /\ BlendedOrHysteresis(a)
    \/ a.degradation_state.type \notin {"NoneType", "dict"}
    \/ /\ a.degradation_state.type = "dict"
       /\ \E k \in DOMAIN a.degradation_state.d : k \notin VALID_DEGRADATION_KEYS
    \/ /\ a.extra_model_opts # None
       /\ "thermal" \in DOMAIN The(a.extra_model_opts)
       /\ The(a.extra_model_opts)["thermal"].s # "isothermal"
       /\ a.htc_ext = None
    \/ /\ a.OCV_init # None \/ a.SOC_definition.type # "NoneType"
       /\ BlendedOrHysteresis(a)

\* C1: a call with a configuration error has, once validation has run,
\* raised a validation error with the source file unresolved, the mapping
\* not loaded, no option derived and no model built; and whenever a
\* validation error has been raised, nothing has been resolved or loaded.
C1_ConfigErrorsBeforeLoad ==
    /\ (pc # "validate" /\ ConfigurationError(args)) =>
          /\ pc = "raised"
          /\ error \in ValidationErrors
    /\ (pc = "raised" /\ error \in ValidationErrors) =>
          /\ fp_bpx = None
          /\ parameter_values = None
          /\ required_model_opts = EmptyMap
          /\ degradation_state = None
          /\ model = None

C1_Witness ==
    /\ pc = "raised"
    /\ error = "NotImplementedError: degradation_state"
    /\ args.degradation_state = PyDict(One("LLI", 10))
    /\ args.blended_electrode = <<TRUE, FALSE>>
    /\ parameter_values = None

----------------------------------------------------------------------------
(* C2 *)

ZeroOrEmpty(ds) == ds.type = "dict" /\ \A k \in DOMAIN ds.d : ds.d[k] = 0

WithoutDegradation == Run(Entry([args EXCEPT !.degradation_state = PyNone],
                                file, factory_events))

\* the same success or failure and, on success, the same mapping and options
SameResult(s, t) ==
    /\ s.pc = t.pc
    /\ s.pc = "returned" =>
          /\ s.parameter_values = t.parameter_values
          /\ The(s.model).options = The(t.model).options

\* C2 as claimed: for every other argument, a call with an empty or all-zero
\* degradation_state ends as the call with degradation_state=None does.
C2_Original ==
    (Ended(Cur) /\ ZeroOrEmpty(args.degradation_state)) =>
        SameResult(Cur, WithoutDegradation)

\* C2 amended: when hysteresis_model is 'none', no electrode is blended and
\* every key of the degradation_state is an allowed one, a call with an empty
\* or all-zero degradation_state ends as the call with degradation_state=None
\* does: same success or failure, same mapping, same model options.
C2_ZeroDegradationIsNone ==
    (/\ Ended(Cur)
     /\ ZeroOrEmpty(args.degradation_state)
     /\ ~BlendedOrHysteresis(args)
     /\ DOMAIN args.degradation_state.d \subseteq VALID_DEGRADATION_KEYS) =>
        SameResult(Cur, WithoutDegradation)

C2_Witness ==
    /\ pc = "returned"
    /\ args.degradation_state = PyDict(One("LAM_NE", 0) @@ One("RI_far_PE", 0))
    /\ degradation_state = None
    /\ CyclableLithium \notin DOMAIN The(parameter_values)

----------------------------------------------------------------------------
(* C3 *)

PositiveBlend(a) == a.blended_electrode # None /\ a.blended_electrode[2]

----------------------------------------------------------------------------
(* C4 *)

BranchKeys(phase, el) ==
    {BranchOCP(phase, el, "lithiation"), BranchOCP(phase, el, "delithiation")}

SameAt(m, m0, k) ==
    /\ k \in DOMAIN m <=> k \in DOMAIN m0
    /\ k \in DOMAIN m0 => m[k] = m0[k]

\* what the claim says of one electrode phase, from mapping m0 to mapping m
BranchApplied(m0, m, hysteresis_branch, el, phase) ==
    IF BranchKeys(phase, el) \subseteq DOMAIN m0
    THEN /\ CanonicalOCP(phase, el) \in DOMAIN m
         /\ m[CanonicalOCP(phase, el)] =
                m0[BranchOCP(phase, el, HYSTERESIS_BRANCH_MAP[hysteresis_branch][el])]
         /\ BranchKeys(phase, el) \cap DOMAIN m = {}
    ELSE \A k \in BranchKeys(phase, el) \cup {CanonicalOCP(phase, el)} : SameAt(m, m0, k)

\* C4 as claimed: with hysteresis_model 'none' and branch 'charge' or
\* 'discharge', after apply_hysteresis_branch every phase of every electrode
\* that had both branch OCPs has, as its canonical OCP, the data of the branch
\* HYSTERESIS_BRANCH_MAP selects, and neither branch key; other phases are
\* unchanged.
C4_Original ==
    (/\ pc = "initial"
     /\ args.hysteresis_model = "none"
     /\ args.hysteresis_branch \in {"charge", "discharge"}) =>
        \A i \in 1..Len(phases_by_electrode) :
            \A j \in 1..Len(phases_by_electrode[i]) :
                BranchApplied(The(Before("hysteresis").parameter_values),
                              The(parameter_values), args.hysteresis_branch,
                              ELECTRODES[i], phases_by_electrode[i][j])

----------------------------------------------------------------------------
(* C7 *)

\* the call with other values of SOC_init and SOC_definition
WithSOC(soc, sd) ==
    Run(Entry([args EXCEPT !.SOC_init = soc, !.SOC_definition = sd],
              file, factory_events))

\* C7 as claimed: with OCV_init given, calls that differ only in SOC_init
\* and SOC_definition end alike: same success or failure, same mapping, same
\* model events.
C7_Original ==
    (Ended(Cur) /\ args.OCV_init # None) =>
        \A soc \in SOCInits, sd \in SOCDefinitions :
            /\ WithSOC(soc, sd).pc = pc
            /\ pc = "returned" =>
                  /\ WithSOC(soc, sd).parameter_values = parameter_values
                  /\ The(WithSOC(soc, sd).model).events = The(model).events

----------------------------------------------------------------------------
(* C9 *)

\* C9 as claimed: after build_exchange_current_density every electrode that
\* had a pre-multiplier entry has the synthesized function under its
\* exchange-current density, and none of the pre-multiplier, rate constant
\* and activation energy entries.
C9_Original ==
    pc = "build_bpx" =>
        \A i \in 1..Len(ELECTRODES) :
            LET el == <<ELECTRODES[i], "electrode">>
                m == The(parameter_values)
            IN (el \o tag_j0) \in DOMAIN The(Before("build_j0").parameter_values) =>
                  /\ ExchangeCurrentDensity(ELECTRODES[i]) \in DOMAIN m
                  /\ m[ExchangeCurrentDensity(ELECTRODES[i])].tag = "j0"
                  /\ (el \o tag_j0) \notin DOMAIN m
                  /\ (el \o RateConstant) \notin DOMAIN m
                  /\ (el \o ActivationEnergy) \notin DOMAIN m

----------------------------------------------------------------------------
(* One stage of the call, on the states in which calls reach it *)

\* the calls of `calls` on `files` that reach stage p, there
Reaching(p, calls, files, events) ==
    \E a \in calls, f \in files, ev \in events :
        LET s == RunTo(Entry(a, f, ev), p) IN s.pc = p /\ At(s)

----------------------------------------------------------------------------
(* C5: apply_degradation_state *)

DegradationValues(mode) ==
    IF mode \in {"LLI", "RI_far_NE"} THEN {0, 10, 50}
    ELSE IF mode = "R0_addn [Ohm]" THEN {3}
    ELSE {20}

\* every degradation state over the allowed modes and these values
DegradationDicts ==
    UNION {{d \in [S -> {0, 3, 10, 20, 50}] : \A k \in S : d[k] \in DegradationValues(k)} :
              S \in SUBSET VALID_DEGRADATION_KEYS}

DegradationFiles ==
    {DirectFile(MapOf(SingleKeys)),
     DirectFile(MapOf(SingleKeys) @@ One(ContactResistance, Num(2))),
     DirectFile(MapOf((SingleKeys \ {ExchangeCurrentDensity("Negative")})
                        \cup SynthesisKeys)),
     DirectFile(MapOf(SingleKeys \ {ElectrolyteDiffusivity}))}

InitDegradation ==
    Reaching("degradation",
             {[DefaultArgs EXCEPT !.degradation_state = PyDict(d)] : d \in DegradationDicts},
             DegradationFiles, FactoryEvents)

SpecDegradation == InitDegradation /\ [][Degradation]_vars

\* v is v0 times n/d
Times(v, v0, n, d) ==
    /\ v.tag = v0.tag /\ v.src = v0.src /\ v.coef = v0.coef
    /\ v.n * v0.d * d = v0.n * n * v.d

\* the factor of a mode: (1 - x) for a loss, 1/(1 + x) for a resistance increase
Loss(ds, mode) == IF mode \in DOMAIN ds THEN 100 - ds[mode] ELSE 100
Increase(ds, mode) == IF mode \in DOMAIN ds THEN 100 + ds[mode] ELSE 100

DegradationTargets(ds) ==
    {CyclableLithium}
      \cup (IF "LAM_NE" \in DOMAIN ds THEN {VolumeFraction("Negative")} ELSE {})
      \cup (IF "LAM_PE" \in DOMAIN ds THEN {VolumeFraction("Positive")} ELSE {})
      \cup (IF "RI_far_NE" \in DOMAIN ds THEN {ExchangeCurrentDensity("Negative")} ELSE {})
      \cup (IF "RI_far_PE" \in DOMAIN ds THEN {ExchangeCurrentDensity("Positive")} ELSE {})
      \cup (IF "RI_electrolyte" \in DOMAIN ds
            THEN {ElectrolyteConductivity, ElectrolyteDiffusivity} ELSE {})
      \cup (IF "R0_addn [Ohm]" \in DOMAIN ds THEN {ContactResistance} ELSE {})

Degraded(m0, m, ds) ==
    /\ Times(m[CyclableLithium], calc_lithium_inventory(m0), Loss(ds, "LLI"), 100)
    /\ Times(m[VolumeFraction("Negative")], m0[VolumeFraction("Negative")],
             Loss(ds, "LAM_NE"), 100)
    /\ Times(m[VolumeFraction("Positive")], m0[VolumeFraction("Positive")],
             Loss(ds, "LAM_PE"), 100)
    /\ "RI_far_NE" \in DOMAIN ds =>
          Times(m[ExchangeCurrentDensity("Negative")],
                m0[ExchangeCurrentDensity("Negative")], 100, Increase(ds, "RI_far_NE"))
    /\ "RI_far_PE" \in DOMAIN ds =>
          Times(m[ExchangeCurrentDensity("Positive")],
                m0[ExchangeCurrentDensity("Positive")], 100, Increase(ds, "RI_far_PE"))
    /\ "RI_electrolyte" \in DOMAIN ds =>
          \A k \in {ElectrolyteConductivity, ElectrolyteDiffusivity} :
              Times(m[k], m0[k], 100, Increase(ds, "RI_electrolyte"))
    /\ \A k \in (DOMAIN m0 \cup DOMAIN m) \ DegradationTargets(ds) : SameAt(m, m0, k)

\* C5: after apply_degradation_state the lithium inventory is (1 - LLI) times
\* the inventory of the mapping as it was on entry, every other target of a
\* mode present is its entry value times that mode's factor alone, and every
\* entry that is no target of a mode present is as it was on entry.
C5_DegradationFromEntryValues ==
    (pc = "contact" /\ degradation_state # None) =>
        Degraded(The(Before("degradation").parameter_values),
                 The(parameter_values), The(degradation_state))

C5_Witness ==
    /\ pc = "contact"
    /\ degradation_state = Some(One("LLI", 10) @@ One("LAM_NE", 20) @@ One("RI_far_NE", 50))
    /\ The(parameter_values)[CyclableLithium].n = 9
    /\ The(parameter_values)[CyclableLithium].d = 10
    /\ The(parameter_values)[CyclableLithium].coef[VolumeFraction("Negative")].n = 1
    /\ The(parameter_values)[ExchangeCurrentDensity("Negative")].n = 2
    /\ The(parameter_values)[ExchangeCurrentDensity("Negative")].d = 3
    /\ The(parameter_values)[ExchangeCurrentDensity("Positive")].n = 1

----------------------------------------------------------------------------
(* C6: _combine_model_opts *)

OptionNames ==
    {"thermal", "contact resistance", "particle phases", "open-circuit potential",
     "calculate heat source for isothermal models"}

\* every set of extra options over these names
ExtraOptionMaps == UNION {[S -> {Str("x")}] : S \in SUBSET OptionNames}

CombineCalls ==
    {[DefaultArgs EXCEPT !.extra_model_opts = Some(x), !.hysteresis_model = h,
                         !.add_hysteresis_heat_source = b, !.htc_ext = Some(5)] :
        x \in ExtraOptionMaps, h \in {"none", "one-state"}, b \in BOOLEAN}
      \cup {DefaultArgs}

InitCombine ==
    Reaching("create_model", CombineCalls,
             {DirectFile(MapOf(SingleKeys)),
              DirectFile(MapOf(SingleKeys \cup HysteresisKeys(<<>>, "Negative"))
                           @@ One(ContactResistance, Num(2)))},
             FactoryEvents)

SpecCombine == InitCombine /\ [][CreateModel]_vars

Combined(required, extra) ==
    IF DOMAIN extra \cap DOMAIN required # {}
    THEN /\ pc = "raised"
         /\ error = "ValueError: required setting"
         /\ model = None
    ELSE /\ pc = "trim"
         /\ DOMAIN The(model).options = DOMAIN required \cup DOMAIN extra
         /\ \A k \in DOMAIN required : The(model).options[k] = required[k]
         /\ \A k \in DOMAIN extra : The(model).options[k] = extra[k]

\* C6: once the options are combined, a key shared by the extra and the
\* required options has raised an error with no model constructed; otherwise
\* the model's options are the union of both with every required option at
\* its derived value; the required options are as they were.
C6_CombineModelOpts ==
    pc # "create_model" =>
        /\ required_model_opts = Before("create_model").required_model_opts
        /\ Combined(required_model_opts, extra_model_opts(args))

C6_Witness ==
    /\ pc = "raised"
    /\ error = "ValueError: required setting"
    /\ "open-circuit potential" \in DOMAIN extra_model_opts(args)
    /\ "open-circuit potential" \in DOMAIN required_model_opts
    /\ required_model_opts["open-circuit potential"] =
           Tup(<<Str("Wycisk"), Str("single")>>)
    /\ model = None

----------------------------------------------------------------------------
(* C8: apply_trim_model_events *)

\* a model has at most this many events
MaxEvents == 3

EventNames ==
    {MinimumVoltage, MaximumVoltage, OtherEvent,
     <<"Experiment:", "Maximum", "voltage", "reached">>}

EventLists == UNION {[1..n -> EventNames] : n \in 0..MaxEvents}

TrimSOCs == {0, 4, 5, 6, 50, 94, 95, 96, 100}

InitTrim ==
    Reaching("trim",
             {[DefaultArgs EXCEPT !.SOC_init = soc, !.trim_model_events = b] :
                 soc \in TrimSOCs, b \in BOOLEAN},
             {DirectFile(MapOf(SingleKeys))}, EventLists)

SpecTrim == InitTrim /\ [][Trim]_vars

HasWords(name, w1, w2) ==
    \E i \in 1..(Len(name) - 1) : name[i] = w1 /\ name[i + 1] = w2

\* `kept` is `all` without exactly its events named with the words w1 w2, in
\* the order of `all`
RemovedExactly(kept, all, w1, w2) ==
    /\ \A i \in 1..Len(kept) : ~HasWords(kept[i], w1, w2)
    /\ Len(kept) = Cardinality({i \in 1..Len(all) : ~HasWords(all[i], w1, w2)})
    /\ \E at \in [1..Len(kept) -> 1..Len(all)] :
          /\ \A i \in 1..Len(kept) : kept[i] = all[at[i]]
          /\ \A i, j \in 1..Len(kept) : i < j => at[i] < at[j]

\* C8: get_params returns the model with, of the events the factory gave it,
\* exactly those named 'Maximum voltage' removed when SOC_init > 0.95,
\* exactly those named 'Minimum voltage' removed when SOC_init < 0.05, and
\* none removed in between or when trim_model_events is false; the others
\* keep their order.
C8_TrimModelEvents ==
    pc = "returned" =>
        IF ~args.trim_model_events THEN The(model).events = factory_events
        ELSE IF args.SOC_init > 95
        THEN RemovedExactly(The(model).events, factory_events, "Maximum", "voltage")
        ELSE IF args.SOC_init < 5
        THEN RemovedExactly(The(model).events, factory_events, "Minimum", "voltage")
        ELSE The(model).events = factory_events

C8_Witness ==
    /\ pc = "returned"
    /\ args.trim_model_events
    /\ args.SOC_init = 96
    /\ factory_events = <<MaximumVoltage, MinimumVoltage, OtherEvent>>
    /\ The(model).events = <<MinimumVoltage, OtherEvent>>

----------------------------------------------------------------------------
(* C10: build_BPX_incompatible *)

Diffusivity == <<"Negative", "electrode", "diffusivity", "[m2.s-1]">>

FunctionKeys ==
    {Diffusivity, Diffusivity \o <<"func_type", "Arrhenius">>,
     Diffusivity \o <<"D_ref">>, Diffusivity \o <<"Ea">>,
     <<"Primary:">> \o Diffusivity,
     <<"Primary:">> \o Diffusivity \o <<"func_type", "Arrhenius">>,
     <<"Primary:">> \o Diffusivity \o <<"D_ref">>,
     ElectrolyteConductivity}

\* every file over these entries, in either order
FunctionFiles ==
    {[DirectFile(MapOf(S)) EXCEPT !.rev = r] : S \in SUBSET FunctionKeys, r \in BOOLEAN}

InitBPX == Reaching("build_bpx", {DefaultArgs}, FunctionFiles, FactoryEvents)

SpecBPX == InitBPX /\ [][BuildBPX]_vars

\* name is '<P> <more>'
StartsWithParam(name, P) == Len(name) > Len(P) /\ SubSeq(name, 1, Len(P)) = P

\* the parameters P that have a '<P> func_type <type>' marker in m
FunctionTyped(m) ==
    {P \in UNION {{SubSeq(k, 1, i) : i \in 1..Len(k)} : k \in DOMAIN m} :
        \E k \in DOMAIN m :
            /\ StartsWithParam(k, P)
            /\ k[Len(P) + 1] = "func_type"
            /\ Len(k) > Len(P) + 1
            /\ \A j \in 1..Len(P) : P[j] # "func_type"}

\* C10 as claimed: after build_BPX_incompatible the mapping contains every
\* parameter P that had a func_type marker and no entry named '<P> ...'; a
\* mapping without any marker is unchanged.
C10_Original ==
    pc = "htc" =>
        LET m0 == The(Before("build_bpx").parameter_values)
            m == The(parameter_values)
        IN /\ \A P \in FunctionTyped(m0) :
                 /\ P \in DOMAIN m
                 /\ \A k \in DOMAIN m : ~StartsWithParam(k, P)
           /\ FunctionTyped(m0) = {} => m = m0

----------------------------------------------------------------------------
(* C11: the data-availability errors of phase resolution *)

PhaseErrors ==
    {"ValueError: positive electrode blend", "ValueError: no blended data",
     "ValueError: no single-material data"}

\* the mapping as get_default_parameter_values loaded it for the current call
Loaded == Before("build_j0").parameter_values

\* C11 as claimed: when a data-availability error of phase resolution is
\* raised, the mapping equals the mapping as loaded from the source file: no
\* function synthesis, heat-transfer coefficient or degradation update has
\* been applied.
C11_Original ==
    (pc = "raised" /\ error \in PhaseErrors) => parameter_values = Loaded

----------------------------------------------------------------------------
(* C12, C13: the hysteresis stage, on calls that request a hysteresis model *)

HysteresisCalls ==
    {[DefaultArgs EXCEPT !.hysteresis_model = h, !.blended_electrode = b] :
        h \in {"zero-state", "one-state"}, b \in {None, <<TRUE, FALSE>>}}

SwitchingFactors(phase, el) ==
    {EmptyMap, One(SwitchingFactor(phase, el), Num(0)),
     One(SwitchingFactor(phase, el), Num(2))}

\* single-material files: any of the OCP entries of the two electrodes, and
\* the switching factor of the negative electrode absent, zero or not zero
SingleHysteresisFiles ==
    {DirectFile(MapOf(SingleKeys \cup S) @@ sw) :
        S \in SUBSET (HysteresisKeys(<<>>, "Negative") \cup HysteresisKeys(<<>>, "Positive")),
        sw \in SwitchingFactors(<<>>, "Negative")}

\* files with a blended negative electrode
BlendedHysteresisFiles ==
    {DirectFile(MapOf((BlendedKeys \ (HysteresisKeys(<<"Primary:">>, "Negative")
                                        \cup HysteresisKeys(<<"Secondary:">>, "Negative")))
                        \cup S) @@ sw) :
        S \in SUBSET (HysteresisKeys(<<"Primary:">>, "Negative")
                        \cup HysteresisKeys(<<"Secondary:">>, "Negative")),
        sw \in SwitchingFactors(<<"Secondary:">>, "Negative")}

InitHysteresis ==
    Reaching("hysteresis", HysteresisCalls,
             SingleHysteresisFiles \cup BlendedHysteresisFiles, FactoryEvents)

SpecHysteresis == InitHysteresis /\ [][Hysteresis]_vars

\* the hysteresis stage of the current call has run
HysteresisDone == pc \in {"initial", "raised"}

\* the mapping on entry to the hysteresis stage
AtHysteresis == The(Before("hysteresis").parameter_values)

Requested == IF args.hysteresis_model = "zero-state" THEN "current sigmoid" ELSE "Wycisk"

BothBranches(m, phase, el) ==
    /\ (phase \o <<el, "electrode", "lithiation", "OCP", "[V]">>) \in DOMAIN m
    /\ (phase \o <<el, "electrode", "delithiation", "OCP", "[V]">>) \in DOMAIN m

\* the model of phase j of electrode i, as resolved
Resolved(i, j) ==
    IF Len(phases_by_electrode[i]) = 1 THEN use_hysteresis[i].s
    ELSE use_hysteresis[i].items[j].s

\* C12: after the hysteresis stage of a call with hysteresis_model
\* 'zero-state' or 'one-state', the model resolved for each electrode and
\* phase is the requested one if both branch OCP entries exist in the mapping
\* and 'single' otherwise; each electrode's result is a string for one phase
\* and a tuple with one entry per phase for a blend; the option
\* 'open-circuit potential' is the tuple of the electrodes' results; and a
\* zero-state call, whose hysteresis stage is the resolution alone, never
\* raises there and leaves the mapping as it was.
C12_HysteresisModelResolved ==
    HysteresisDone =>
        /\ Len(use_hysteresis) = Len(ELECTRODES)
        /\ \A i \in 1..Len(ELECTRODES) :
              LET phases == phases_by_electrode[i] IN
              /\ use_hysteresis[i].t = IF Len(phases) = 1 THEN "str" ELSE "tuple"
              /\ Len(phases) > 1 => Len(use_hysteresis[i].items) = Len(phases)
              /\ \A j \in 1..Len(phases) :
                    Resolved(i, j) =
                        IF BothBranches(AtHysteresis, phases[j], ELECTRODES[i])
                        THEN Requested ELSE "single"
        /\ pc = "initial" =>
              required_model_opts["open-circuit potential"] = Tup(use_hysteresis)
        /\ args.hysteresis_model = "zero-state" =>
              /\ pc = "initial"
              /\ The(parameter_values) = AtHysteresis

\* a blended negative electrode with branch data for its first phase only
C12_Witness ==
    /\ pc = "initial"
    /\ args.hysteresis_model = "zero-state"
    /\ use_hysteresis =
           <<Tup(<<Str("current sigmoid"), Str("single")>>), Str("single")>>

----------------------------------------------------------------------------
(* C13: apply_one_state_hysteresis *)

\* the electrode phases (i, j) of the current call
ElectrodePhases ==
    {<<i, j>> : i \in 1..Len(ELECTRODES), j \in 1..2} \cap
        {p \in (1..Len(ELECTRODES)) \X (1..2) : p[2] <= Len(phases_by_electrode[p[1]])}

PhaseOf(p) == phases_by_electrode[p[1]][p[2]]
ElectrodeOf(p) == ELECTRODES[p[1]]
OneState(p) == Resolved(p[1], p[2]) = "Wycisk"

NonZeroSwitchingFactor(m, p) ==
    /\ SwitchingFactor(PhaseOf(p), ElectrodeOf(p)) \in DOMAIN m
    /\ m[SwitchingFactor(PhaseOf(p), ElectrodeOf(p))] # Num(0)

\* one of the four OCP-related entries of the phase is not in the mapping
MissingOCPEntry(m, p) ==
    \E k \in 1..Len(PARAMS_HYSTERESIS_DIFF) :
        HysteresisDiff(PhaseOf(p), ElectrodeOf(p), k) \notin DOMAIN m

\* the entries named for the phase of the electrode
EntriesOf(m, p) ==
    {k \in DOMAIN m :
        \/ StartsWithParam(k, PhaseOf(p) \o <<ElectrodeOf(p)>>)
        \/ k = InitialHysteresisState(PhaseOf(p), ElectrodeOf(p))}

\* what a normal return leaves: zero switching factor and initial state and
\* the four OCP-related entries rewritten for a one-state phase, the entries
\* of a 'single' phase as they were
OneStateApplied(m0, m) ==
    \A p \in ElectrodePhases :
        IF OneState(p)
        THEN /\ SwitchingFactor(PhaseOf(p), ElectrodeOf(p)) \in DOMAIN m
             /\ m[SwitchingFactor(PhaseOf(p), ElectrodeOf(p))] = Num(0)
             /\ InitialHysteresisState(PhaseOf(p), ElectrodeOf(p)) \in DOMAIN m
             /\ m[InitialHysteresisState(PhaseOf(p), ElectrodeOf(p))] = Num(0)
             /\ \A k \in 1..Len(PARAMS_HYSTERESIS_DIFF) :
                   LET key == HysteresisDiff(PhaseOf(p), ElectrodeOf(p), k)
                   IN /\ key \in DOMAIN m
                      /\ m[key].tag = "hysteresis_compatible"
                      /\ m[key].coef = One(<<"of">>, m0[key])
        ELSE /\ EntriesOf(m, p) = EntriesOf(m0, p)
             /\ \A k \in EntriesOf(m0, p) : m[k] = m0[k]

\* C13 as claimed: apply_one_state_hysteresis raises exactly when some phase
\* resolved to 'Wycisk' has a switching factor that is present and not zero;
\* when it returns, every one-state phase has zero switching factor and
\* initial state and its four OCP-related entries rewritten, and no entry of
\* a 'single' phase has changed.
C13_Original ==
    (HysteresisDone /\ args.hysteresis_model = "one-state") =>
        /\ pc = "raised" <=>
              \E p \in ElectrodePhases : OneState(p) /\ NonZeroSwitchingFactor(AtHysteresis, p)
        /\ pc = "initial" => OneStateApplied(AtHysteresis, The(parameter_values))

\* C13 amended: apply_one_state_hysteresis raises exactly when some phase
\* resolved to 'Wycisk' has a switching factor that is present and not zero,
\* or lacks one of its four OCP-related entries; the rest as claimed.
C13_OneStateHysteresis ==
    (HysteresisDone /\ args.hysteresis_model = "one-state") =>
        /\ pc = "raised" <=>
              \E p \in ElectrodePhases :
                  /\ OneState(p)
                  /\ \/ NonZeroSwitchingFactor(AtHysteresis, p)
                     \/ MissingOCPEntry(AtHysteresis, p)
        /\ pc = "initial" => OneStateApplied(AtHysteresis, The(parameter_values))

\* a normal return with a one-state first phase that had no switching factor
\* and a 'single' second phase that has one, not zero
C13_Witness ==
    /\ pc = "initial"
    /\ args.hysteresis_model = "one-state"
    /\ use_hysteresis = <<Tup(<<Str("Wycisk"), Str("single")>>), Str("single")>>
    /\ SwitchingFactor(<<"Primary:">>, "Negative") \notin DOMAIN AtHysteresis
    /\ SwitchingFactor(<<"Secondary:">>, "Negative") \in DOMAIN AtHysteresis
    /\ AtHysteresis[SwitchingFactor(<<"Secondary:">>, "Negative")] = Num(2)
    /\ The(parameter_values)[SwitchingFactor(<<"Primary:">>, "Negative")] = Num(0)

----------------------------------------------------------------------------
(* C14: what build_BPX_incompatible may touch *)

\* the entries of m named '<P> <coefficient>', by coefficient name
CoefficientsOf(m, P) ==
    {SubSeq(k, Len(P) + 1, Len(k)) :
        k \in {x \in DOMAIN m : StartsWithParam(x, P) /\ x[Len(P) + 1] # "func_type"}}

\* k is P or '<P> ...' for a function-typed parameter P of m
BelongsToFunction(m, k) ==
    \E P \in FunctionTyped(m) : k = P \/ StartsWithParam(k, P)

\* C14 as claimed: build_BPX_incompatible synthesizes each function-typed
\* parameter P from exactly the entries named '<P> <coefficient>', and every
\* entry that does not belong to a function-typed parameter (such as
\* 'Primary: <P>') is still in the mapping with its value.
C14_Original ==
    pc = "htc" =>
        LET m0 == The(Before("build_bpx").parameter_values)
            m == The(parameter_values)
        IN /\ \A P \in FunctionTyped(m0) :
                 P \in DOMAIN m =>
                     /\ DOMAIN m[P].coef = CoefficientsOf(m0, P)
                     /\ \A c \in CoefficientsOf(m0, P) : m[P].coef[c] = m0[P \o c]
           /\ \A k \in DOMAIN m0 :
                 ~BelongsToFunction(m0, k) => (k \in DOMAIN m /\ m[k] = m0[k])

====
